---------------------------- MODULE Spec2Model ----------------------------
(***************************************************************************)
(* The skill analyzer (analyze_skill.py) and the description generator     *)
(* (generate_description.py) of skill-frontmatter-optimizer.               *)
(*                                                                         *)
(* A Python str is a sequence of one-character strings, so that lower(),   *)
(* strip(), the `in` operator and every regular expression are computed   *)
(* character by character, the way the interpreter computes them.          *)
(***************************************************************************)
EXTENDS Integers, Sequences, FiniteSets, TLC

VARIABLES
    pc,               \* where main() of generate_description.py stands
    path_exists,      \* skill_path.exists()
    skill_md_exists,  \* (skill_path / 'SKILL.md').exists()
    folder_name,      \* skill_path.name
    content,          \* skill_md.read_text()
    analysis,         \* the dict analyze_skill returned
    current,          \* main: current
    generated,        \* main: generated
    suggestions,      \* main: suggestions
    current_score,    \* main: current_score
    generated_score,  \* main: generated_score
    best,             \* main: best
    called            \* the functions main has called so far

vars == <<pc, path_exists, skill_md_exists, folder_name, content, analysis, current,
          generated, suggestions, current_score, generated_score, best, called>>

----------------------------------------------------------------------------
(* Characters and the str methods the two scripts use.                      *)

Range(s) == {s[i] : i \in 1..Len(s)}

UPPER == <<"A","B","C","D","E","F","G","H","I","J","K","L","M","N","O","P","Q","R","S","T","U","V","W","X","Y","Z">>
LOWER == <<"a","b","c","d","e","f","g","h","i","j","k","l","m","n","o","p","q","r","s","t","u","v","w","x","y","z">>
DIGITS == <<"0","1","2","3","4","5","6","7","8","9">>

UPPER_SET == Range(UPPER)
LOWER_SET == Range(LOWER)
DIGIT_SET == Range(DIGITS)

IsUpper(c) == c \in UPPER_SET
IsLower(c) == c \in LOWER_SET
IsAlpha(c) == IsUpper(c) \/ IsLower(c)
\* \d
IsDigit(c) == c \in DIGIT_SET
\* \w
IsWord(c) == IsAlpha(c) \/ IsDigit(c) \/ c = "_"
\* \s
SPACES == {" ", "\t", "\n", "\r", "\f"}
IsSpace(c) == c \in SPACES

LowerOf == [c \in UPPER_SET |-> LOWER[CHOOSE i \in 1..Len(UPPER) : UPPER[i] = c]]
UpperOf == [c \in LOWER_SET |-> UPPER[CHOOSE i \in 1..Len(LOWER) : LOWER[i] = c]]
ToLower(c) == IF IsUpper(c) THEN LowerOf[c] ELSE c
ToUpper(c) == IF IsLower(c) THEN UpperOf[c] ELSE c

\* s.lower()  (\o << >> has TLC hold the result as a tuple, computed once)
lower(s) == [i \in 1..Len(s) |-> ToLower(s[i])] \o << >>

\* s.title(): a letter after a non-letter is upper-cased, any other is lower-cased
title(s) ==
    [i \in 1..Len(s) |->
        IF i = 1 \/ ~IsAlpha(s[i - 1]) THEN ToUpper(s[i]) ELSE ToLower(s[i])]

\* s.capitalize()
capitalize(s) == [i \in 1..Len(s) |-> IF i = 1 THEN ToUpper(s[i]) ELSE ToLower(s[i])]

\* s.replace(a, b) for single characters a and b
replace(s, a, b) == [i \in 1..Len(s) |-> IF s[i] = a THEN b ELSE s[i]]

\* s[i:] starts with k (i is 1-based)
StartsAt(s, k, i) ==
    /\ i >= 1
    /\ i + Len(k) - 1 <= Len(s)
    /\ \A j \in 1..Len(k) : s[i + j - 1] = k[j]

\* k in s
In(k, s) == \E i \in 1..(Len(s) - Len(k) + 1) : StartsAt(s, k, i)

\* any(k in s for k in ks)
AnyIn(ks, s) == \E n \in 1..Len(ks) : In(ks[n], s)

\* The least j >= from with s[j] in S, or Len(s) + 1 when there is none.
FirstIn(s, from, S) ==
    CHOOSE j \in from..(Len(s) + 1) :
        /\ (j = Len(s) + 1 \/ s[j] \in S)
        /\ \A k \in from..(j - 1) : s[k] \notin S

\* The least j >= from with s[j] not in S, or Len(s) + 1 when there is none.
FirstNotIn(s, from, S) ==
    CHOOSE j \in from..(Len(s) + 1) :
        /\ (j = Len(s) + 1 \/ s[j] \notin S)
        /\ \A k \in from..(j - 1) : s[k] \in S

\* The greatest j <= Len(s) with s[j] not in S, or 0 when there is none.
LastNotIn(s, S) ==
    CHOOSE j \in 0..Len(s) :
        /\ (j = 0 \/ s[j] \notin S)
        /\ \A k \in (j + 1)..Len(s) : s[k] \in S

\* s.strip()
strip(s) == SubSeq(s, FirstNotIn(s, 1, SPACES), LastNotIn(s, SPACES))

\* s.rstrip(chars)
rstrip(s, chars) == SubSeq(s, 1, LastNotIn(s, chars))

\* sep.join(list)
RECURSIVE join(_, _)
join(sep, list) ==
    IF Len(list) = 0 THEN << >>
    ELSE IF Len(list) = 1 THEN list[1]
    ELSE list[1] \o sep \o join(sep, Tail(list))

\* list[:n]
Take(list, n) == SubSeq(list, 1, IF n < Len(list) THEN n ELSE Len(list))

\* str(n) for n >= 0
RECURSIVE str(_)
str(n) == IF n < 10 THEN <<DIGITS[n + 1]>> ELSE str(n \div 10) \o <<DIGITS[(n % 10) + 1]>>

----------------------------------------------------------------------------
(* Regular expressions shared by the scripts.                               *)

\* A match of \(\d+\) starts at i: the position of its ")" , else 0.
EnumEnd(s, i) ==
    IF i > Len(s) \/ s[i] # "(" THEN 0
    ELSE LET j == FirstNotIn(s, i + 1, DIGIT_SET)
         IN IF j > i + 1 /\ j <= Len(s) /\ s[j] = ")" THEN j ELSE 0

\* re.search(r'\(\d+\)', s)
HasEnum(s) == \E i \in 1..Len(s) : EnumEnd(s, i) > 0

\* len(re.findall(r'\(\d+\)', s)): two matches never overlap
EnumCount(s) == Cardinality({i \in 1..Len(s) : EnumEnd(s, i) > 0})

----------------------------------------------------------------------------
(* Python values read from the header: a str, None, a list or a dict.       *)

PyStr(s) == [type |-> "str", value |-> s]
PyNone == [type |-> "NoneType", value |-> << >>]
PyList(items) == [type |-> "list", value |-> items]
PyDict(d) == [type |-> "dict", value |-> d]
YAMLError == [type |-> "YAMLError", value |-> << >>]

\* bool(v) of a loaded value
Truthy(v) ==
    CASE v.type = "NoneType" -> FALSE
      [] v.type \in {"str", "list"} -> Len(v.value) > 0
      [] v.type = "dict" -> DOMAIN v.value # {}
      [] OTHER -> TRUE

\* d.get(key, default) on a dict
Get(d, key, default) == IF key \in DOMAIN d.value THEN d.value[key] ELSE default

\* s.split('\n')
RECURSIVE SplitLines(_)
SplitLines(s) ==
    LET n == FirstIn(s, 1, {"\n"})
    IN IF n > Len(s) THEN <<s>>
       ELSE <<SubSeq(s, 1, n - 1)>> \o SplitLines(SubSeq(s, n + 1, Len(s)))

(***************************************************************************)
(* yaml.safe_load on the block-style headers a SKILL.md carries: one        *)
(* `key: value` per line with a plain or double-quoted scalar (an empty     *)
(* value loads as None), a sequence of `- item` lines, one plain scalar, or *)
(* nothing. A plain scalar that holds ': ', a quote that is not closed and  *)
(* a line that fits none of the forms raise YAMLError.                      *)
(***************************************************************************)
KeyEnd(line) == FirstIn(line, 1, {":"})

IsMappingLine(line) ==
    /\ KeyEnd(line) > 1
    /\ KeyEnd(line) <= Len(line)
    /\ (KeyEnd(line) = Len(line) \/ line[KeyEnd(line) + 1] = " ")
    /\ \A i \in 1..(KeyEnd(line) - 1) : line[i] \notin {" ", "-", "\"", "[", "{"}

IsItemLine(line) == StartsAt(line, <<"-"," ">>, 1)

\* The scalar after `key:` or `- `: a value, or YAMLError.
LoadScalar(text) ==
    LET t == strip(text)
    IN IF Len(t) = 0 THEN PyNone
       ELSE IF t[1] = "\""
       THEN (IF Len(t) >= 2 /\ t[Len(t)] = "\""
                /\ \A i \in 2..(Len(t) - 1) : t[i] \notin {"\"", "\\"}
             THEN PyStr(SubSeq(t, 2, Len(t) - 1)) ELSE YAMLError)
       ELSE IF t[1] \in {"[", "{", "'", "&", "*", "!", "|", ">", "%", "@"}
               \/ In(<<":"," ">>, t) \/ t[Len(t)] = ":" \/ In(<<" ","#">>, t)
       THEN YAMLError
       ELSE PyStr(t)

yaml_safe_load(text) ==
    LET lines == SelectSeq(SplitLines(text), LAMBDA l : Len(strip(l)) > 0)
        key(l) == SubSeq(l, 1, KeyEnd(l) - 1)
        val(l) == LoadScalar(SubSeq(l, KeyEnd(l) + 1, Len(l)))
        item(l) == LoadScalar(SubSeq(l, 3, Len(l)))
    IN IF Len(lines) = 0 THEN PyNone
       ELSE IF \A n \in 1..Len(lines) : IsMappingLine(lines[n])
       THEN (IF \E n \in 1..Len(lines) : val(lines[n]).type = "YAMLError" THEN YAMLError
             ELSE PyDict([k \in {key(lines[n]) : n \in 1..Len(lines)} |->
                             val(lines[CHOOSE n \in 1..Len(lines) :
                                           /\ key(lines[n]) = k
                                           /\ \A m \in (n + 1)..Len(lines) :
                                                  key(lines[m]) # k])]))
       ELSE IF \A n \in 1..Len(lines) : IsItemLine(lines[n])
       THEN (IF \E n \in 1..Len(lines) : item(lines[n]).type = "YAMLError" THEN YAMLError
             ELSE PyList([n \in 1..Len(lines) |-> item(lines[n])]))
       ELSE IF Len(lines) = 1 /\ ~IsMappingLine(lines[1]) /\ ~IsItemLine(lines[1])
       THEN LoadScalar(lines[1])
       ELSE YAMLError

----------------------------------------------------------------------------
(* analyze_skill.py                                                         *)

DELIMITER == <<"-","-","-">>
OPENING == <<"-","-","-","\n">>
CLOSING == <<"\n","-","-","-">>

\* re.match(r'^---\n(.*?)\n---', content): where the closing '\n---' starts, else 0.
HeaderClose(c) ==
    IF ~StartsAt(c, OPENING, 1) THEN 0
    ELSE LET ends == {j \in (Len(OPENING) + 1)..Len(c) : StartsAt(c, CLOSING, j)}
         IN IF ends = {} THEN 0 ELSE CHOOSE j \in ends : \A k \in ends : j <= k

\* match.group(1)
HeaderText(c) == SubSeq(c, Len(OPENING) + 1, HeaderClose(c) - 1)

\* What extract_frontmatter returns: `yaml.safe_load(...) or {}`, and {} on a
\* YAMLError. A non-empty scalar or list is returned as it was loaded.
extract_frontmatter(c) ==
    IF ~StartsAt(c, DELIMITER, 1) THEN PyDict(<< >>)
    ELSE IF HeaderClose(c) = 0 THEN PyDict(<< >>)
    ELSE LET loaded == yaml_safe_load(HeaderText(c))
         IN IF loaded.type = "YAMLError" THEN PyDict(<< >>)
            ELSE IF Truthy(loaded) THEN loaded
            ELSE PyDict(<< >>)

\* re.match(r'^---\n.*?\n---\n?(.*)', content)
extract_body(c) ==
    IF HeaderClose(c) = 0 THEN c
    ELSE LET after == HeaderClose(c) + Len(CLOSING)
         IN SubSeq(c, IF after <= Len(c) /\ c[after] = "\n" THEN after + 1 ELSE after,
                   Len(c))

PRIMARY_EXTENSIONS ==
    <<<<"d","o","c","x">>, <<"x","l","s","x">>, <<"p","d","f">>, <<"p","p","t","x">>, <<"c","s","v">>, <<"t","s","v">>, <<"j","s","o","n">>, <<"x","m","l">>, <<"h","t","m","l">>>>
ALL_EXTENSIONS ==
    PRIMARY_EXTENSIONS \o
    <<<<"m","d">>, <<"t","x","t">>, <<"p","y">>, <<"j","s">>, <<"t","s">>, <<"j","s","x">>, <<"t","s","x">>, <<"y","a","m","l">>, <<"y","m","l">>, <<"p","n","g">>, <<"j","p","g">>,
      <<"j","p","e","g">>, <<"g","i","f">>, <<"s","v","g">>>>
CODE_EXTENSIONS ==
    <<<<"p","y">>, <<"j","s">>, <<"t","s">>, <<"j","s","x">>, <<"t","s","x">>, <<"y","a","m","l">>, <<"y","m","l">>, <<"m","d">>, <<"t","x","t">>>>

\* The order of str comparison on the characters compared here.
CHAR_ORDER == DIGITS \o UPPER \o LOWER
Ord(c) == CHOOSE i \in 1..Len(CHAR_ORDER) : CHAR_ORDER[i] = c

\* a < b for two str
StrLess(a, b) ==
    \/ Len(a) < Len(b) /\ SubSeq(b, 1, Len(a)) = a
    \/ \E p \in 1..(IF Len(a) < Len(b) THEN Len(a) ELSE Len(b)) :
           /\ SubSeq(a, 1, p - 1) = SubSeq(b, 1, p - 1)
           /\ Ord(a[p]) < Ord(b[p])

\* sorted(S) for a set of str
RECURSIVE sorted(_)
sorted(S) ==
    IF S = {} THEN << >>
    ELSE LET m == CHOOSE x \in S : \A y \in S \ {x} : StrLess(x, y)
         IN <<m>> \o sorted(S \ {m})

\* set(ext.lower() for ext in re.findall(r'\.(e1|e2|...)\b', c, re.IGNORECASE))
ExtensionsFound(c, exts) ==
    LET lc == lower(c)
    IN {ext \in Range(exts) :
           \E i \in 1..Len(c) :
               /\ c[i] = "."
               /\ StartsAt(lc, ext, i + 1)
               /\ (i + Len(ext) = Len(c) \/ ~IsWord(c[i + Len(ext) + 1]))}

find_file_types(c) ==
    LET primary == ExtensionsFound(c, PRIMARY_EXTENSIONS)
        extensions == ExtensionsFound(c, ALL_EXTENSIONS)
        doc_exts == extensions \ Range(CODE_EXTENSIONS)
    IN IF primary # {} THEN sorted(primary)
       ELSE IF doc_exts # {} THEN sorted(doc_exts)
       ELSE sorted(extensions)

ACTION_VERBS ==
    {<<"c","r","e","a","t","e">>, <<"b","u","i","l","d">>, <<"g","e","n","e","r","a","t","e">>, <<"m","a","k","e">>, <<"w","r","i","t","e">>, <<"p","r","o","d","u","c","e">>,
     <<"e","d","i","t">>, <<"m","o","d","i","f","y">>, <<"u","p","d","a","t","e">>, <<"c","h","a","n","g","e">>, <<"f","i","x">>, <<"r","e","v","i","s","e">>,
     <<"a","n","a","l","y","z","e">>, <<"e","x","t","r","a","c","t">>, <<"p","r","o","c","e","s","s">>, <<"p","a","r","s","e">>, <<"r","e","a","d">>, <<"e","x","a","m","i","n","e">>,
     <<"c","o","n","v","e","r","t">>, <<"t","r","a","n","s","f","o","r","m">>, <<"m","e","r","g","e">>, <<"s","p","l","i","t">>, <<"c","o","m","b","i","n","e">>,
     <<"f","i","l","l">>, <<"c","o","m","p","l","e","t","e">>, <<"v","a","l","i","d","a","t","e">>, <<"v","e","r","i","f","y">>, <<"c","h","e","c","k">>,
     <<"f","o","r","m","a","t">>, <<"s","t","y","l","e">>, <<"d","e","s","i","g","n">>, <<"l","a","y","o","u","t">>, <<"r","e","n","d","e","r">>}

\* re.findall(r'\b[a-z]+\b', s): the runs of a-z with no word character on either side
Words(s) ==
    LET run_end(i) == FirstNotIn(s, i, LOWER_SET) - 1
        starts == SelectSeq([i \in 1..Len(s) |-> i],
                            LAMBDA i : /\ IsLower(s[i])
                                       /\ (i = 1 \/ ~IsWord(s[i - 1]))
                                       /\ (run_end(i) = Len(s) \/ ~IsWord(s[run_end(i) + 1])))
    IN [k \in 1..Len(starts) |-> SubSeq(s, starts[k], run_end(starts[k]))]

\* Counter(found).most_common(n): by count, descending; equal counts in the order of
\* first occurrence (the sort is stable over the Counter's insertion order)
RECURSIVE MostCommon(_, _, _)
MostCommon(found, left, n) ==
    LET count(v) == Cardinality({i \in 1..Len(found) : found[i] = v})
        first(v) == CHOOSE i \in 1..Len(found) :
                        found[i] = v /\ \A k \in 1..(i - 1) : found[k] # v
    IN IF n = 0 \/ left = {} THEN << >>
       ELSE LET top == CHOOSE v \in left :
                           \A w \in left \ {v} :
                               \/ count(v) > count(w)
                               \/ count(v) = count(w) /\ first(v) < first(w)
            IN <<top>> \o MostCommon(found, left \ {top}, n - 1)

\* find_action_verbs without the ranking by frequency: the verbs in the order they
\* first occur
find_action_verbs_unranked(c) ==
    LET found == SelectSeq(Words(lower(c)), LAMBDA w : w \in ACTION_VERBS)
        firsts == SelectSeq([i \in 1..Len(found) |-> i],
                            LAMBDA i : \A k \in 1..(i - 1) : found[k] # found[i])
    IN Take([k \in 1..Len(firsts) |-> found[firsts[k]]], 10)

find_action_verbs(c) ==
    LET found == SelectSeq(Words(lower(c)), LAMBDA w : w \in ACTION_VERBS)
    IN MostCommon(found, Range(found), 10)

\* A match of ^#{1,3}\s+(.+)$ starts at p: <<first, last>> of group 1, else <<0, 0>>.
\* \s+ takes the whole run of white space (line breaks too) and gives back as little
\* as lets (.+) start on a character that is no line break.
HeadingAt(s, p) ==
    LET hashes == FirstNotIn(s, p, {"#"}) - p
        ws == p + hashes
        text == FirstNotIn(s, ws, SPACES)
        cands == {q \in (ws + 1)..text : q <= Len(s) /\ s[q] # "\n"}
        first == CHOOSE q \in cands : \A r \in cands : r <= q
    IN IF (p > 1 /\ s[p - 1] # "\n") \/ hashes < 1 \/ hashes > 3 \/ cands = {}
       THEN <<0, 0>>
       ELSE <<first, FirstIn(s, first, {"\n"}) - 1>>

\* re.findall(r'^#{1,3}\s+(.+)$', s[from:], re.MULTILINE)
RECURSIVE HeadingsFrom(_, _)
HeadingsFrom(s, from) ==
    LET starts == {p \in from..Len(s) : HeadingAt(s, p)[1] > 0}
    IN IF starts = {} THEN << >>
       ELSE LET p == CHOOSE m \in starts : \A n \in starts : m <= n
                g == HeadingAt(s, p)
            IN <<SubSeq(s, g[1], g[2])>> \o HeadingsFrom(s, g[2] + 1)

extract_headings(c) == HeadingsFrom(c, 1)

SKIP_PATTERNS ==
    <<<<"o","v","e","r","v","i","e","w">>, <<"g","u","i","d","e">>, <<"i","n","t","r","o","d","u","c","t","i","o","n">>, <<"q","u","i","c","k"," ","s","t","a","r","t">>, <<"g","e","t","t","i","n","g"," ","s","t","a","r","t","e","d">>,
      <<"r","e","f","e","r","e","n","c","e">>, <<"i","n","s","t","a","l","l","a","t","i","o","n">>, <<"s","e","t","u","p">>, <<"r","e","q","u","i","r","e","m","e","n","t","s">>, <<"p","r","e","r","e","q","u","i","s","i","t","e","s">>,
      <<"p","y","t","h","o","n">>, <<"j","a","v","a","s","c","r","i","p","t">>, <<"b","a","s","h">>, <<"e","x","a","m","p","l","e">>, <<"o","u","t","p","u","t">>>>
WORKFLOW_KEYWORDS ==
    <<<<"c","r","e","a","t","i","n","g">>, <<"e","d","i","t","i","n","g">>, <<"r","e","a","d","i","n","g">>, <<"a","n","a","l","y","z","i","n","g">>, <<"c","o","n","v","e","r","t","i","n","g">>,
      <<"p","r","o","c","e","s","s","i","n","g">>, <<"f","i","l","l","i","n","g">>, <<"g","e","n","e","r","a","t","i","n","g">>, <<"b","u","i","l","d","i","n","g">>, <<"e","x","t","r","a","c","t","i","n","g">>,
      <<"m","e","r","g","i","n","g">>, <<"s","p","l","i","t","t","i","n","g">>, <<"v","a","l","i","d","a","t","i","n","g">>, <<"f","o","r","m","a","t","t","i","n","g">>>>
VERB_STEMS ==
    <<<<"c","r","e","a","t">>, <<"e","d","i","t">>, <<"e","x","t","r","a","c","t">>, <<"m","e","r","g">>, <<"s","p","l","i","t">>, <<"f","i","l","l">>, <<"g","e","n","e","r","a","t">>, <<"c","o","n","v","e","r","t">>,
      <<"r","e","a","d">>, <<"a","n","a","l","y","z">>>>
VERB_SCENARIOS ==
    <<<<"C","r","e","a","t","i","n","g"," ","n","e","w"," ","c","o","n","t","e","n","t">>, <<"E","d","i","t","i","n","g"," ","e","x","i","s","t","i","n","g"," ","c","o","n","t","e","n","t">>, <<"E","x","t","r","a","c","t","i","n","g"," ","d","a","t","a">>,
      <<"M","e","r","g","i","n","g"," ","f","i","l","e","s">>, <<"S","p","l","i","t","t","i","n","g"," ","d","o","c","u","m","e","n","t","s">>, <<"F","i","l","l","i","n","g"," ","f","o","r","m","s">>, <<"G","e","n","e","r","a","t","i","n","g"," ","o","u","t","p","u","t">>,
      <<"C","o","n","v","e","r","t","i","n","g"," ","f","o","r","m","a","t","s">>, <<"R","e","a","d","i","n","g"," ","c","o","n","t","e","n","t">>, <<"A","n","a","l","y","z","i","n","g"," ","d","a","t","a">>>>

\* verb_to_scenario[verb]
verb_to_scenario(verb) == VERB_SCENARIOS[CHOOSE i \in 1..Len(VERB_STEMS) : VERB_STEMS[i] = verb]

\* re.search(r'[(){}\[\]"\'=<>]', heading)
LooksLikeCode(heading) ==
    \E i \in 1..Len(heading) :
        heading[i] \in {"(", ")", "{", "}", "[", "]", "\"", "'", "=", "<", ">"}

\* heading.strip().rstrip(':')
CleanHeading(heading) == rstrip(strip(heading), {":"})

\* The scenarios the loop over the headings appends.
HeadingScenarios(headings) ==
    SelectSeq(headings,
              LAMBDA h : /\ ~AnyIn(SKIP_PATTERNS, lower(h))
                         /\ ~LooksLikeCode(h)
                         /\ AnyIn(WORKFLOW_KEYWORDS, lower(h))
                         /\ 5 < Len(CleanHeading(h))
                         /\ Len(CleanHeading(h)) < 50)

\* verbs_found
VerbsFound(body) == {v \in Range(VERB_STEMS) : In(v, lower(body))}

\* The orders list(verbs_found)[:k] can come in: the iteration order of a set of str
\* is not fixed by the program (hash randomization).
RECURSIVE Arrangements(_, _)
Arrangements(S, k) ==
    IF k = 0 \/ S = {} THEN {<< >>}
    ELSE UNION {{<<v>> \o rest : rest \in Arrangements(S \ {v}, k - 1)} : v \in S}

\* estimate_scenarios that returns scenarios, not scenarios[:5]
estimate_scenarios_uncapped(headings, body, picked) ==
    LET kept == HeadingScenarios(headings)
        scenarios == [i \in 1..Len(kept) |-> CleanHeading(kept[i])]
    IN IF Len(scenarios) < 3
       THEN scenarios \o [i \in 1..Len(picked) |-> verb_to_scenario(picked[i])]
       ELSE scenarios

\* estimate_scenarios, with list(verbs_found)[:5 - len(scenarios)] == picked
estimate_scenarios(headings, body, picked) ==
    LET kept == HeadingScenarios(headings)
        scenarios == [i \in 1..Len(kept) |-> CleanHeading(kept[i])]
    IN Take(IF Len(scenarios) < 3
            THEN scenarios \o [i \in 1..Len(picked) |-> verb_to_scenario(picked[i])]
            ELSE scenarios, 5)

\* The values `picked` can take for these headings and this body.
PickedOrders(headings, body) ==
    LET n == Len(HeadingScenarios(headings))
    IN IF n < 3 THEN Arrangements(VerbsFound(body), 5 - n) ELSE {<< >>}

\* repr(list) of a list of str without quotes or backslashes
ListRepr(list) ==
    <<"[">> \o join(<<","," ">>, [i \in 1..Len(list) |-> <<"'">> \o list[i] \o <<"'">>]) \o <<"]">>

ISSUE_TOO_SHORT == <<"D","e","s","c","r","i","p","t","i","o","n"," ","t","o","o"," ","s","h","o","r","t"," ","(","<"," ","5","0"," ","c","h","a","r","s",")">>
ISSUE_ANGLE_BRACKETS == <<"C","o","n","t","a","i","n","s"," ","f","o","r","b","i","d","d","e","n"," ","a","n","g","l","e"," ","b","r","a","c","k","e","t","s">>
ISSUE_NO_TRIGGER == <<"M","i","s","s","i","n","g"," ","t","r","i","g","g","e","r"," ","p","h","r","a","s","e"," ","(","U","s","e"," ","t","h","i","s"," ","s","k","i","l","l"," ","w","h","e","n",".",".",".",")">>
ISSUE_NO_ENUMERATION == <<"N","o"," ","e","n","u","m","e","r","a","t","e","d"," ","s","c","e","n","a","r","i","o","s"," ","(","1",")",","," ","(","2",")",","," ","(","3",")",".",".",".">>
IssueTooLong(desc) == <<"D","e","s","c","r","i","p","t","i","o","n"," ","t","o","o"," ","l","o","n","g"," ","(">> \o str(Len(desc)) \o <<" ",">"," ","1","0","2","4"," ","c","h","a","r","s",")">>
IssueFileTypes(file_types) ==
    <<"F","i","l","e"," ","t","y","p","e","s"," ">> \o ListRepr(file_types) \o <<" ","n","o","t"," ","i","n"," ","d","e","s","c","r","i","p","t","i","o","n">>

\* quality_issues with its last check written without the inner `if file_types:`
quality_issues_unguarded(desc, file_types) ==
    (IF Len(desc) < 50 THEN <<ISSUE_TOO_SHORT>> ELSE << >>)
    \o (IF Len(desc) > 1024 THEN <<IssueTooLong(desc)>> ELSE << >>)
    \o (IF "<" \in Range(desc) \/ ">" \in Range(desc) THEN <<ISSUE_ANGLE_BRACKETS>>
        ELSE << >>)
    \o (IF ~AnyIn(<<<<"u","s","e"," ","t","h","i","s"," ","s","k","i","l","l"," ","w","h","e","n">>, <<"w","h","e","n"," ","c","l","a","u","d","e"," ","n","e","e","d","s">>, <<"u","s","e"," ","w","h","e","n">>>>, lower(desc))
        THEN <<ISSUE_NO_TRIGGER>> ELSE << >>)
    \o (IF ~HasEnum(desc) THEN <<ISSUE_NO_ENUMERATION>> ELSE << >>)
    \o (IF Len(file_types) = 0 \/ ~AnyIn(file_types, lower(desc))
        THEN <<IssueFileTypes(file_types)>> ELSE << >>)

\* Quality checks on current description
quality_issues(desc, file_types) ==
    (IF Len(desc) < 50 THEN <<ISSUE_TOO_SHORT>> ELSE << >>)
    \o (IF Len(desc) > 1024 THEN <<IssueTooLong(desc)>> ELSE << >>)
    \o (IF "<" \in Range(desc) \/ ">" \in Range(desc) THEN <<ISSUE_ANGLE_BRACKETS>>
        ELSE << >>)
    \o (IF ~AnyIn(<<<<"u","s","e"," ","t","h","i","s"," ","s","k","i","l","l"," ","w","h","e","n">>, <<"w","h","e","n"," ","c","l","a","u","d","e"," ","n","e","e","d","s">>, <<"u","s","e"," ","w","h","e","n">>>>, lower(desc))
        THEN <<ISSUE_NO_TRIGGER>> ELSE << >>)
    \o (IF ~HasEnum(desc) THEN <<ISSUE_NO_ENUMERATION>> ELSE << >>)
    \o (IF (Len(file_types) = 0 \/ ~AnyIn(file_types, lower(desc))) /\ Len(file_types) > 0
        THEN <<IssueFileTypes(file_types)>> ELSE << >>)

\* The dict analyze_skill builds from these values.
Analysis(name, desc, file_types, action_verbs, headings, scenarios) ==
    [name |-> name,
     current_description |-> desc,
     description_length |-> Len(desc),
     file_types |-> file_types,
     action_verbs |-> action_verbs,
     headings |-> headings,
     estimated_scenarios |-> scenarios,
     quality_issues |-> quality_issues(desc, file_types)]

Raised(exception) == [raised |-> exception]
Returned(value) == [returned |-> value]

\* analyze_skill without its check that SKILL.md exists
analyze_skill_unchecked(exists, folder, c, picked) ==
    LET frontmatter == extract_frontmatter(c)
        body == extract_body(c)
        headings == extract_headings(body)
        name == Get(frontmatter, <<"n","a","m","e">>, PyStr(folder))
        description == Get(frontmatter, <<"d","e","s","c","r","i","p","t","i","o","n">>, PyStr(<< >>))
    IN IF frontmatter.type # "dict" THEN Raised("AttributeError")
       ELSE IF description.type = "NoneType" THEN Raised("TypeError")
       ELSE Returned(Analysis(name, description.value, find_file_types(c),
                              find_action_verbs(body), headings,
                              estimate_scenarios(headings, body, picked)))

\* analyze_skill: what it returns, or the exception it raises.
analyze_skill(exists, folder, c, picked) ==
    LET frontmatter == extract_frontmatter(c)
        body == extract_body(c)
        headings == extract_headings(body)
        name == Get(frontmatter, <<"n","a","m","e">>, PyStr(folder))
        description == Get(frontmatter, <<"d","e","s","c","r","i","p","t","i","o","n">>, PyStr(<< >>))
    IN IF ~exists THEN Returned([error |-> <<"S","K","I","L","L",".","m","d"," ","n","o","t"," ","f","o","u","n","d"," ","i","n"," ">> \o folder])
       ELSE IF frontmatter.type # "dict" THEN Raised("AttributeError")
       ELSE IF description.type = "NoneType" THEN Raised("TypeError")
       ELSE Returned(Analysis(name, description.value, find_file_types(c),
                              find_action_verbs(body), headings,
                              estimate_scenarios(headings, body, picked)))

----------------------------------------------------------------------------
(* generate_description.py                                                  *)

MAX_DESCRIPTION_LENGTH == 1024

DOCUMENT_FORMATS == <<<<"d","o","c","x">>, <<"p","d","f">>, <<"x","l","s","x">>, <<"p","p","t","x">>, <<"c","s","v">>>>
REFERENCE_KEYWORDS == <<<<"r","e","f","e","r","e","n","c","e">>, <<"d","o","c","u","m","e","n","t","a","t","i","o","n">>, <<"a","p","i">>, <<"s","c","h","e","m","a">>>>
WORKFLOW_STEP_KEYWORDS == <<<<"w","o","r","k","f","l","o","w">>, <<"s","t","e","p">>, <<"p","r","o","c","e","s","s">>, <<"p","i","p","e","l","i","n","e">>>>
EXAMPLE_KEYWORDS ==
    <<<<"c","r","e","a","t","i","n","g">>, <<"e","d","i","t","i","n","g">>, <<"r","e","a","d","i","n","g">>, <<"c","o","n","v","e","r","t","i","n","g">>, <<"p","r","o","c","e","s","s","i","n","g">>, <<"b","u","i","l","d","i","n","g">>>>

SkillTypes == {"file_processor", "knowledge_reference", "workflow_automation",
               "tool_integration"}

\* ' '.join(h.lower() for h in headings)
JoinedHeadings(a) == join(<<" ">>, [i \in 1..Len(a.headings) |-> lower(a.headings[i])])

HandlesDocumentFormat(a) ==
    \E i \in 1..Len(a.file_types) : a.file_types[i] \in Range(DOCUMENT_FORMATS)

\* classify_skill_type with the workflow check before the reference check
classify_skill_type_workflow_first(a) ==
    IF HandlesDocumentFormat(a) THEN "file_processor"
    ELSE IF AnyIn(WORKFLOW_STEP_KEYWORDS, JoinedHeadings(a)) THEN "workflow_automation"
    ELSE IF AnyIn(REFERENCE_KEYWORDS, JoinedHeadings(a)) THEN "knowledge_reference"
    ELSE "tool_integration"

classify_skill_type(a) ==
    IF HandlesDocumentFormat(a) THEN "file_processor"
    ELSE IF AnyIn(REFERENCE_KEYWORDS, JoinedHeadings(a)) THEN "knowledge_reference"
    ELSE IF AnyIn(WORKFLOW_STEP_KEYWORDS, JoinedHeadings(a)) THEN "workflow_automation"
    ELSE "tool_integration"

\* name.replace('-', ' ').replace('_', ' ')
readable_name(a) == replace(replace(a.name.value, "-", " "), "_", " ")

\* '.' + ext
DotExt(ext) == <<".">> \o ext

\* ['.' + ext for ext in exts]
DotExts(exts) == [i \in 1..Len(exts) |-> DotExt(exts[i])]

\* ', '.join('.' + ext for ext in file_types[:3])
ext_list(a) == join(<<","," ">>, DotExts(Take(a.file_types, 3)))

generate_capability_phrase(a) ==
    LET verbs == Take(a.action_verbs, 4)
        verb_phrase ==
            IF Len(verbs) = 0 THEN <<"P","r","o","c","e","s","s","i","n","g"," ","a","n","d"," ","m","a","n","i","p","u","l","a","t","i","o","n">>
            ELSE title(IF Len(verbs) > 1
                       THEN join(<<","," ">>, SubSeq(verbs, 1, Len(verbs) - 1))
                                \o <<","," ","a","n","d"," ">> \o verbs[Len(verbs)]
                       ELSE verbs[1])
        file_phrase ==
            IF Len(a.file_types) > 0 THEN <<"f","o","r"," ">> \o ext_list(a) \o <<" ","f","i","l","e","s">>
            ELSE <<"f","o","r"," ">> \o readable_name(a)
    IN verb_phrase \o <<" ">> \o file_phrase

\* scenario.strip().rstrip('.'), cut to 47 characters and '...' when over 50
CleanScenario(scenario) ==
    LET s == rstrip(strip(scenario), {"."})
    IN IF Len(s) > 50 THEN SubSeq(s, 1, 47) \o <<".",".",".">> ELSE s

generate_scenarios(a) ==
    LET scenarios == Take(a.estimated_scenarios, 4)
        verbs == Take(a.action_verbs, 4)
    IN IF Len(a.estimated_scenarios) > 0
       THEN join(<<","," ">>, [i \in 1..Len(scenarios) |->
                            <<"(">> \o str(i) \o <<")"," ">> \o CleanScenario(scenarios[i])])
       ELSE IF Len(a.action_verbs) > 0
       THEN join(<<","," ">>, [i \in 1..Len(verbs) |->
                            <<"(">> \o str(i) \o <<")"," ">> \o capitalize(verbs[i])
                                \o <<"i","n","g"," ","c","o","n","t","e","n","t">>])
       ELSE <<"(","1",")"," ","P","r","o","c","e","s","s","i","n","g",","," ","(","2",")"," ","A","n","a","l","y","z","i","n","g",","," ","(","3",")"," ","G","e","n","e","r","a","t","i","n","g"," ","o","u","t","p","u","t">>

generate_trigger_context(a) ==
    IF Len(a.file_types) > 0 THEN <<"w","o","r","k","i","n","g"," ","w","i","t","h"," ">> \o ext_list(a) \o <<" ","f","i","l","e","s">>
    ELSE <<"h","a","n","d","l","i","n","g"," ">> \o readable_name(a) \o <<" ","t","a","s","k","s">>

generate_catchall(a) == <<"o","r"," ","a","n","y"," ","o","t","h","e","r"," ">> \o readable_name(a) \o <<" ","t","a","s","k">>

LowerStrip(h) == strip(lower(h))

generate_examples(a) ==
    LET actionable == SelectSeq(Take(a.headings, 6),
                                LAMBDA h : AnyIn(EXAMPLE_KEYWORDS, lower(h)))
        examples == [i \in 1..Len(actionable) |-> LowerStrip(actionable[i])]
    IN IF Len(examples) > 0 THEN join(<<","," ">>, Take(examples, 4))
       ELSE IF Len(a.file_types) > 0
       THEN <<"c","r","e","a","t","i","n","g",","," ","e","d","i","t","i","n","g",","," ","o","r"," ","a","n","a","l","y","z","i","n","g"," ",".">> \o a.file_types[1] \o <<" ","f","i","l","e","s">>
       ELSE <<"p","r","o","c","e","s","s","i","n","g",","," ","t","r","a","n","s","f","o","r","m","i","n","g",","," ","o","r"," ","g","e","n","e","r","a","t","i","n","g"," ","c","o","n","t","e","n","t">>

\* The f-string of the skill type's branch.
FillTemplate(a) ==
    LET skill_type == classify_skill_type(a)
        capability == generate_capability_phrase(a)
        scenarios == generate_scenarios(a)
        trigger == generate_trigger_context(a)
        catchall == generate_catchall(a)
        examples == generate_examples(a)
    IN CASE skill_type = "knowledge_reference" ->
              capability \o <<"."," ">> \o <<"U","s","e"," ","w","h","e","n"," ","u","s","e","r","s"," ","a","s","k"," ","a","b","o","u","t"," ">> \o trigger \o <<"."," ">>
                  \o <<"P","r","o","v","i","d","e","s"," ","a","u","t","h","o","r","i","t","a","t","i","v","e"," ","g","u","i","d","a","n","c","e"," ","f","o","r"," ">> \o examples \o <<".">>
         [] skill_type = "workflow_automation" ->
              capability \o <<"."," ">> \o <<"U","s","e"," ","t","h","i","s"," ","s","k","i","l","l"," ","w","h","e","n"," ">> \o trigger \o <<" ","f","o","r",":"," ">>
                  \o scenarios \o <<"."," ">> \o <<"(","e","x","a","m","p","l","e","s"," ","i","n","c","l","u","d","e"," ">> \o examples \o <<")">>
         [] OTHER ->
              capability \o <<"."," ">> \o <<"U","s","e"," ","t","h","i","s"," ","s","k","i","l","l"," ","w","h","e","n"," ">> \o trigger \o <<" ","f","o","r",":"," ">>
                  \o scenarios \o <<","," ">> \o catchall

EXAMPLES_OPEN == <<"(","e","x","a","m","p","l","e","s"," ","i","n","c","l","u","d","e">>

\* A match of \(examples include[^)]+\) starts at i: the position of its ")", else 0.
ExamplesEnd(s, i) ==
    IF ~StartsAt(s, EXAMPLES_OPEN, i) THEN 0
    ELSE LET from == i + Len(EXAMPLES_OPEN)
             j == FirstIn(s, from, {")"})
         IN IF j > from /\ j <= Len(s) THEN j ELSE 0

\* re.sub(r'\(examples include[^)]+\)', '', s)
RECURSIVE StripExamples(_)
StripExamples(s) ==
    LET starts == {i \in 1..Len(s) : ExamplesEnd(s, i) > 0}
    IN IF starts = {} THEN s
       ELSE LET i == CHOOSE m \in starts : \A n \in starts : m <= n
            IN SubSeq(s, 1, i - 1) \o StripExamples(SubSeq(s, ExamplesEnd(s, i) + 1, Len(s)))

\* A match of \(\d+\)[^,]+,?\s* starts at i: the position of its last character, else 0.
ScenarioEnd(s, i) ==
    LET e == EnumEnd(s, i)
    IN IF e = 0 THEN 0
       ELSE LET c == FirstIn(s, e + 1, {","})
            IN IF c = e + 1 THEN 0
               ELSE FirstNotIn(s, IF c <= Len(s) THEN c + 1 ELSE c, SPACES) - 1

\* re.sub(r'\(\d+\)[^,]+,?\s*', '', s, count=count)
RECURSIVE DropScenarios(_, _)
DropScenarios(s, count) ==
    LET starts == {i \in 1..Len(s) : ScenarioEnd(s, i) > 0}
    IN IF count = 0 \/ starts = {} THEN s
       ELSE LET i == CHOOSE m \in starts : \A n \in starts : m <= n
            IN SubSeq(s, 1, i - 1)
                   \o DropScenarios(SubSeq(s, ScenarioEnd(s, i) + 1, Len(s)), count - 1)

\* re.sub(r'\s+', ' ', s)
CollapseSpaces(s) ==
    LET keep == SelectSeq([i \in 1..Len(s) |-> i],
                          LAMBDA i : ~IsSpace(s[i]) \/ i = 1 \/ ~IsSpace(s[i - 1]))
    IN [j \in 1..Len(keep) |-> IF IsSpace(s[keep[j]]) THEN " " ELSE s[keep[j]]]

generate_optimized_description(a) ==
    LET filled == FillTemplate(a)
        no_examples ==
            IF Len(filled) > MAX_DESCRIPTION_LENGTH THEN strip(StripExamples(filled))
            ELSE filled
        reduced ==
            IF Len(no_examples) > MAX_DESCRIPTION_LENGTH THEN DropScenarios(no_examples, 2)
            ELSE no_examples
    IN rstrip(strip(CollapseSpaces(reduced)), {",", "."})

TRIGGER_THIS_SKILL == <<"u","s","e"," ","t","h","i","s"," ","s","k","i","l","l"," ","w","h","e","n">>
TRIGGER_USE_WHEN == <<"u","s","e"," ","w","h","e","n">>
TRIGGER_CLAUDE == <<"w","h","e","n"," ","c","l","a","u","d","e"," ","n","e","e","d","s">>

\* re.search(r'use (this skill )?when', s)
HasUseWhen(s) == In(TRIGGER_USE_WHEN, s) \/ In(TRIGGER_THIS_SKILL, s)

\* re.search(r'see skill\.md|refer to|see below', s)
HasBodyReference(s) == AnyIn(<<<<"s","e","e"," ","s","k","i","l","l",".","m","d">>, <<"r","e","f","e","r"," ","t","o">>, <<"s","e","e"," ","b","e","l","o","w">>>>, s)

\* [ext for ext in file_types if f'.{ext}' not in current.lower()]
MissingExts(description, file_types) ==
    SelectSeq(file_types, LAMBDA ext : ~In(DotExt(ext), lower(description)))

suggest_improvements(cur, gen, a) ==
    LET missing_exts == MissingExts(cur, a.file_types)
    IN (IF ~HasUseWhen(lower(cur))
        THEN <<<<"A","D","D"," ","t","r","i","g","g","e","r"," ","p","h","r","a","s","e",":"," ","'","U","s","e"," ","t","h","i","s"," ","s","k","i","l","l"," ","w","h","e","n",".",".",".","'">>>> ELSE << >>)
       \o (IF ~HasEnum(cur)
           THEN <<<<"A","D","D"," ","e","n","u","m","e","r","a","t","e","d"," ","s","c","e","n","a","r","i","o","s",":"," ","(","1",")"," ","C","r","e","a","t","i","n","g",","," ","(","2",")"," ","E","d","i","t","i","n","g",","," ","e","t","c",".">>>>
           ELSE << >>)
       \o (IF Len(a.file_types) > 0 /\ Len(missing_exts) > 0
           THEN <<<<"A","D","D"," ","f","i","l","e"," ","e","x","t","e","n","s","i","o","n","s",":"," ">>
                      \o join(<<","," ">>, DotExts(Take(missing_exts, 3)))>>
           ELSE << >>)
       \o (IF Len(cur) < 100
           THEN <<<<"E","X","P","A","N","D",":"," ","D","e","s","c","r","i","p","t","i","o","n"," ","i","s"," ","t","o","o"," ","s","h","o","r","t"," ","f","o","r"," ","r","e","l","i","a","b","l","e"," ","m","a","t","c","h","i","n","g">>>>
           ELSE << >>)
       \o (IF Len(cur) > 900
           THEN <<<<"T","R","I","M",":"," ","N","e","a","r"," ","c","h","a","r","a","c","t","e","r"," ","l","i","m","i","t",","," ","p","r","i","o","r","i","t","i","z","e"," ","t","r","i","g","g","e","r","s"," ","o","v","e","r"," ","f","e","a","t","u","r","e","s">>>>
           ELSE << >>)
       \o (IF HasBodyReference(lower(cur))
           THEN <<<<"R","E","M","O","V","E",":"," ","R","e","f","e","r","e","n","c","e","s"," ","t","o"," ","b","o","d","y"," ","c","o","n","t","e","n","t"," ","(","b","o","d","y"," ","i","s"," ","i","n","v","i","s","i","b","l","e"," ","b","e","f","o","r","e"," ","t","r","i","g","g","e","r","i","n","g",")">>>>
           ELSE << >>)

\* LengthPoints with `if` where the code has `elif`: both bands are awarded
LengthPoints_both_bands(d) ==
    (IF 100 <= Len(d) /\ Len(d) <= 800 THEN 10 ELSE 0)
    + (IF 50 <= Len(d) /\ Len(d) <= 1000 THEN 5 ELSE 0)

\* Length check (10 points)
LengthPoints(d) ==
    IF 100 <= Len(d) /\ Len(d) <= 800 THEN 10
    ELSE IF 50 <= Len(d) /\ Len(d) <= 1000 THEN 5
    ELSE 0

\* Has trigger phrase (20 points)
TriggerPoints(d) == IF HasUseWhen(lower(d)) \/ In(TRIGGER_CLAUDE, lower(d)) THEN 20 ELSE 0

\* Has enumerated scenarios (20 points)
EnumPoints(d) == IF EnumCount(d) >= 3 THEN 20 ELSE IF EnumCount(d) >= 1 THEN 10 ELSE 0

\* Has file types if skill handles files (15 points)
FileTypePoints(d, file_types) ==
    IF Len(file_types) > 0
    THEN (IF \E i \in 1..Len(file_types) : In(DotExt(file_types[i]), lower(d)) THEN 15
          ELSE 0)
    ELSE 15

\* Has catch-all phrase (10 points)
CatchallPoints(d) == IF AnyIn(<<<<"o","r"," ","a","n","y"," ","o","t","h","e","r">>, <<"o","r"," ","o","t","h","e","r">>>>, lower(d)) THEN 10 ELSE 0

\* Has examples (10 points): examples? include|such as|e\.g\.|including
ExamplePoints(d) ==
    IF AnyIn(<<<<"e","x","a","m","p","l","e"," ","i","n","c","l","u","d","e">>, <<"e","x","a","m","p","l","e","s"," ","i","n","c","l","u","d","e">>, <<"s","u","c","h"," ","a","s">>, <<"e",".","g",".">>, <<"i","n","c","l","u","d","i","n","g">>>>,
             lower(d))
    THEN 10 ELSE 0

\* No anti-patterns (15 points)
AntiPatternPoints(d) ==
    IF HasBodyReference(lower(d)) \/ "<" \in Range(d) \/ ">" \in Range(d) THEN 0 ELSE 15

\* score_description without `if not description: return 0`
score_description_no_empty_check(description, a) ==
    LengthPoints(description) + TriggerPoints(description) + EnumPoints(description)
    + FileTypePoints(description, a.file_types) + CatchallPoints(description)
    + ExamplePoints(description) + AntiPatternPoints(description)

score_description(description, a) ==
    IF Len(description) = 0 THEN 0
    ELSE LengthPoints(description) + TriggerPoints(description) + EnumPoints(description)
         + FileTypePoints(description, a.file_types) + CatchallPoints(description)
         + ExamplePoints(description) + AntiPatternPoints(description)

----------------------------------------------------------------------------
(* main() of generate_description.py                                        *)

NoAnalysis == [none |-> TRUE]

\* Best with the comparison turned around
Best_flipped(cur, cur_score, gen, gen_score) == IF gen_score < cur_score THEN gen ELSE cur

\* best = generated if generated_score > current_score else current
Best(cur, cur_score, gen, gen_score) == IF gen_score > cur_score THEN gen ELSE cur

\* if not skill_path.exists(): print, sys.exit(1)
MainPathNotFound ==
    /\ pc = "start"
    /\ ~path_exists
    /\ pc' = "exit_1"
    /\ UNCHANGED <<path_exists, skill_md_exists, folder_name, content, analysis, current,
                   generated, suggestions, current_score, generated_score, best, called>>

\* analysis = analyze_skill(skill_path)
MainAnalyze ==
    /\ pc = "start"
    /\ path_exists
    /\ \E picked \in PickedOrders(extract_headings(extract_body(content)),
                                  extract_body(content)) :
           LET result == analyze_skill(skill_md_exists, folder_name, content, picked)
           IN IF "raised" \in DOMAIN result
              THEN /\ pc' = "raised"
                   /\ analysis' = result
              ELSE /\ pc' = "analyzed"
                   /\ analysis' = result.returned
    /\ called' = Append(called, "analyze_skill")
    /\ UNCHANGED <<path_exists, skill_md_exists, folder_name, content, current, generated,
                   suggestions, current_score, generated_score, best>>

\* if 'error' in analysis: print, sys.exit(1)
MainAnalysisError ==
    /\ pc = "analyzed"
    /\ "error" \in DOMAIN analysis
    /\ pc' = "exit_1"
    /\ UNCHANGED <<path_exists, skill_md_exists, folder_name, content, analysis, current,
                   generated, suggestions, current_score, generated_score, best, called>>

\* current, generated, suggestions, current_score, generated_score
MainOptimize ==
    /\ pc = "analyzed"
    /\ "error" \notin DOMAIN analysis
    /\ IF analysis.name.type # "str"
       THEN /\ pc' = "raised"
            /\ called' = Append(called, "generate_optimized_description")
            /\ UNCHANGED <<current, generated, suggestions, current_score, generated_score>>
       ELSE /\ pc' = "scored"
            /\ current' = analysis.current_description
            /\ generated' = generate_optimized_description(analysis)
            /\ suggestions' = suggest_improvements(current', generated', analysis)
            /\ current_score' = score_description(current', analysis)
            /\ generated_score' = score_description(generated', analysis)
            /\ called' = called \o <<"generate_optimized_description",
                                     "suggest_improvements", "score_description",
                                     "score_description">>
    /\ UNCHANGED <<path_exists, skill_md_exists, folder_name, content, analysis, best>>

\* Use the better description
MainReport ==
    /\ pc = "scored"
    /\ pc' = "done"
    /\ best' = Best(current, current_score, generated, generated_score)
    /\ UNCHANGED <<path_exists, skill_md_exists, folder_name, content, analysis, current,
                   generated, suggestions, current_score, generated_score, called>>

----------------------------------------------------------------------------
(* The skill folders main() is run on.                                      *)

FOLDER_NAME == <<"m","y","-","s","k","i","l","l">>

\* The text between the two '---' lines of SKILL.md.
HEADERS ==
    {<<"n","a","m","e",":"," ","p","d","f","-","f","i","l","l","e","r","\n","d","e","s","c","r","i","p","t","i","o","n",":"," ","\"","\"">>,
     <<"n","a","m","e",":"," ","p","d","f","-","f","i","l","l","e","r","\n","d","e","s","c","r","i","p","t","i","o","n",":"," ","F","i","l","l"," ","P","D","F"," ","f","o","r","m","s","."," ","U","s","e"," ","t","h","i","s"," ","s","k","i","l","l"," ","w","h","e","n"," ","w","o","r","k","i","n","g"," ","w","i","t","h"," ",".","p","d","f"," ","f","i","l","e","s"," ","f","o","r"," ","(","1",")"," ","f","i","l","l","i","n","g"," ","f","o","r","m","s",","," ","(","2",")"," ","r","e","a","d","i","n","g"," ","f","i","e","l","d","s",","," ","(","3",")"," ","m","e","r","g","i","n","g"," ","f","i","l","e","s",","," ","o","r"," ","a","n","y"," ","o","t","h","e","r"," ","p","d","f"," ","t","a","s","k">>,
     <<"n","a","m","e",":"," ","a","p","i","-","d","o","c","s">>,
     <<"d","e","s","c","r","i","p","t","i","o","n",":"," ","\"","\"">>,
     <<"n","a","m","e",":"," ","a","<","b","\n","d","e","s","c","r","i","p","t","i","o","n",":"," ","W","h","e","n"," ","C","l","a","u","d","e"," ","n","e","e","d","s"," ","<","t","a","g","s",">">>,
     <<"n","a","m","e",":","\n","d","e","s","c","r","i","p","t","i","o","n",":"," ","\"","\"">>,
     <<"n","a","m","e",":"," ","n","o","t","e","s","\n","d","e","s","c","r","i","p","t","i","o","n",":">>,
     <<"n","a","m","e",":"," ","n","o","t","e","s","\n","d","e","s","c","r","i","p","t","i","o","n",":"," ","T","o","o","l"," ","f","o","r",":"," ","t","h","i","n","g","s">>,
     <<"n","a","m","e",":"," ","\"","n","o","t","e","s">>,
     <<"j","u","s","t"," ","s","o","m","e"," ","t","e","x","t">>,
     <<"-"," ","n","a","m","e","\n","-"," ","d","e","s","c","r","i","p","t","i","o","n">>,
     <<>>}

BODIES ==
    {<<"#"," ","P","D","F"," ","F","i","l","l","e","r","\n","\n","#","#"," ","F","i","l","l","i","n","g"," ","P","D","F"," ","F","o","r","m","s","\n","F","i","l","l"," ","t","h","e"," ","f","o","r","m",".","p","d","f"," ","a","n","d"," ","f","i","l","l"," ","i","t"," ","a","g","a","i","n","."," ","E","x","t","r","a","c","t"," ","d","a","t","a"," ","f","r","o","m"," ","s","c","a","n",".","p","d","f",".","\n">>,
     <<"#"," ","A","P","I"," ","R","e","f","e","r","e","n","c","e","\n","#","#"," ","W","o","r","k","f","l","o","w"," ","s","t","e","p","s","\n","S","e","e"," ","t","h","e"," ","s","c","h","e","m","a"," ","n","o","t","e","s",".","\n">>,
     <<"#","#"," ","P","r","o","c","e","s","s","i","n","g"," ","p","i","p","e","l","i","n","e","\n","#","#"," ","C","r","e","a","t","i","n","g"," ","r","e","p","o","r","t","s","\n","#","#"," ","E","d","i","t","i","n","g"," ","d","r","a","f","t","s",":","\n","M","e","r","g","e"," ","t","h","e"," ","d","r","a","f","t","s",".","\n">>,
     <<"P","l","a","i","n"," ","t","e","x","t"," ","w","i","t","h","o","u","t"," ","a","n","y"," ","s","t","r","u","c","t","u","r","e",".","\n">>,
     <<"#","#"," ","B","u","i","l","d","i","n","g","\n","R","u","n"," ","b","u","i","l","d",".","p","y",","," ","t","h","e","n"," ","c","o","n","v","e","r","t"," ","n","o","t","e","s",".","m","d"," ","i","n","t","o"," ","p","a","g","e",".","h","t","m","l","\n">>,
     <<"#"," ","G","u","i","d","e","\n","C","r","e","a","t","e"," ","d","a","t","a",".","c","s","v",","," ","e","d","i","t"," ","r","e","p","o","r","t",".","d","o","c","x"," ","a","n","d"," ","r","e","a","d"," ","s","h","e","e","t",".","x","l","s","x",".","\n">>}

\* SKILL.md: a header between two delimiter lines and a body, a header that is never
\* closed, or a body alone.
Documents ==
    {OPENING \o h \o CLOSING \o <<"\n">> \o b : h \in HEADERS, b \in BODIES}
    \cup {OPENING \o <<"n","a","m","e",":"," ","n","o","t","e","s","\n">> \o b : b \in BODIES}
    \cup BODIES

Init ==
    /\ pc = "start"
    /\ path_exists \in BOOLEAN
    /\ skill_md_exists \in BOOLEAN
    /\ skill_md_exists => path_exists
    /\ folder_name = FOLDER_NAME
    /\ content \in (IF skill_md_exists THEN Documents ELSE {<< >>})
    /\ analysis = NoAnalysis
    /\ current = << >>
    /\ generated = << >>
    /\ suggestions = << >>
    /\ current_score = 0
    /\ generated_score = 0
    /\ best = << >>
    /\ called = << >>

Next ==
    \/ MainPathNotFound
    \/ MainAnalyze
    \/ MainAnalysisError
    \/ MainOptimize
    \/ MainReport

Spec == Init /\ [][Next]_vars

----------------------------------------------------------------------------
(* generate_optimized_description over analysis results drawn from bounded  *)
(* sets: main() from the point where analyze_skill has returned.            *)

MaxVerbs == 10
MaxFileTypes == 6
MaxScenarios == 5
LongNameLen == 400

Repeat(c, n) == [i \in 1..n |-> c]

VERB_POOL ==
    <<<<"f","i","l","l">>, <<"e","x","t","r","a","c","t">>, <<"c","r","e","a","t","e">>, <<"e","d","i","t">>, <<"m","e","r","g","e">>, <<"s","p","l","i","t">>, <<"c","o","n","v","e","r","t">>, <<"r","e","a","d">>,
      <<"a","n","a","l","y","z","e">>, <<"v","a","l","i","d","a","t","e">>, <<"f","o","r","m","a","t">>, <<"r","e","n","d","e","r">>>>
\* Document formats first, and in sorted order as find_file_types returns them.
FILE_TYPE_POOL == <<<<"c","s","v">>, <<"d","o","c","x">>, <<"h","t","m","l">>, <<"j","s","o","n">>, <<"p","d","f">>, <<"p","p","t","x">>, <<"t","s","v">>, <<"x","l","s","x">>>>
\* No document format among them.
DATA_TYPE_POOL == <<<<"h","t","m","l">>, <<"j","s","o","n">>>>
SCENARIO_POOL ==
    <<<<"F","i","l","l","i","n","g"," ","P","D","F"," ","F","o","r","m","s">>, <<"C","r","e","a","t","i","n","g"," ","n","e","w"," ","c","o","n","t","e","n","t">>, <<"E","x","t","r","a","c","t","i","n","g"," ","d","a","t","a",".">>,
      <<"C","o","n","v","e","r","t","i","n","g"," ","a"," ","l","o","n","g"," ","l","i","s","t"," ","o","f"," ","s","c","a","n","n","e","d"," ","d","o","c","u","m","e","n","t","s"," ","i","n","t","o"," ","o","n","e"," ","s","e","a","r","c","h","a","b","l","e"," ","a","r","c","h","i","v","e">>,
      <<"M","e","r","g","i","n","g"," ","f","i","l","e","s">>, <<"R","e","a","d","i","n","g"," ","c","o","n","t","e","n","t">>, <<"S","p","l","i","t","t","i","n","g"," ","d","o","c","u","m","e","n","t","s">>>>

\* name and headings of the skills analyzed
GenSubjects ==
    {<<<<"p","d","f","-","f","i","l","l","e","r">>, << >> >>,
     <<<<"p","d","f","-","f","i","l","l","e","r">>, <<<<"O","v","e","r","v","i","e","w">>, <<"C","r","e","a","t","i","n","g"," ","D","o","c","u","m","e","n","t","s">>, <<"E","d","i","t","i","n","g"," ","<","f","i","e","l","d","s",">">>>> >>,
     <<<<"a","p","i","-","d","o","c","s">>, <<<<"A","P","I"," ","R","e","f","e","r","e","n","c","e">>, <<"W","o","r","k","f","l","o","w"," ","S","t","e","p","s">>, <<"R","e","a","d","i","n","g"," ","f","o","r","m","s">>>> >>,
     <<<<"a","<","b">>, <<<<"P","r","o","c","e","s","s","i","n","g"," ","P","i","p","e","l","i","n","e">>, <<"S","t","e","p"," ","1">>, <<"B","u","i","l","d","i","n","g"," ","r","e","p","o","r","t","s">>>> >>,
     <<<<"d","a","t","a","_","t","o","o","l">>, <<<<"D","a","t","a"," ","S","c","h","e","m","a">>>> >>}

\* The same, with a name or a heading of LongNameLen characters and more.
LongSubjects ==
    {<<Repeat("n", LongNameLen), << >> >>,
     <<<<"(","1",")">> \o Repeat("n", LongNameLen), << >> >>,
     <<<<"(","1",")">> \o Repeat("n", LongNameLen), <<<<"D","a","t","a"," ","S","c","h","e","m","a">>>> >>,
     <<<<"(","1",")">> \o Repeat("n", LongNameLen),
       <<<<"W","o","r","k","f","l","o","w"," ","S","t","e","p","s">>, <<"B","u","i","l","d","i","n","g"," ">> \o Repeat("x", LongNameLen)>> >>}

GenFileTypes ==
    {Take(FILE_TYPE_POOL, n) : n \in 0..MaxFileTypes}
    \cup {Take(DATA_TYPE_POOL, n) : n \in 1..2}

GenAnalyses ==
    {Analysis(PyStr(subject[1]), << >>, file_types, Take(VERB_POOL, nv), subject[2],
              Take(SCENARIO_POOL, ns)) :
        subject \in GenSubjects, file_types \in GenFileTypes, nv \in 0..MaxVerbs,
        ns \in 0..MaxScenarios}
    \cup
    {Analysis(PyStr(subject[1]), << >>, file_types, Take(VERB_POOL, nv), subject[2],
              Take(SCENARIO_POOL, ns)) :
        subject \in LongSubjects, file_types \in {<< >>, Take(FILE_TYPE_POOL, MaxFileTypes)},
        nv \in {0, MaxVerbs}, ns \in 0..MaxScenarios}

InitAnalyzed(analyses) ==
    /\ pc = "analyzed"
    /\ path_exists = TRUE
    /\ skill_md_exists = TRUE
    /\ folder_name = FOLDER_NAME
    /\ content = << >>
    /\ analysis \in analyses
    /\ current = << >>
    /\ generated = << >>
    /\ suggestions = << >>
    /\ current_score = 0
    /\ generated_score = 0
    /\ best = << >>
    /\ called = <<"analyze_skill">>

InitGenerate == InitAnalyzed(GenAnalyses)

NextAnalyzed ==
    \/ MainOptimize
    \/ MainReport

SpecGenerate == InitGenerate /\ [][NextAnalyzed]_vars

----------------------------------------------------------------------------
(* score_description and suggest_improvements over current descriptions     *)
(* drawn from bounded sets: main() from the point where analyze_skill has   *)
(* returned an analysis holding that description.                           *)

PadLen == 760

\* What a description is put together from, in this order.
FRAGMENTS ==
    <<<<"F","i","l","l"," ","a","n","d"," ","m","e","r","g","e"," ","P","D","F"," ","f","o","r","m","s"," ","f","o","r"," ","t","h","e"," ","w","h","o","l","e"," ","t","e","a","m",","," ","q","u","i","c","k","l","y"," ","a","n","d"," ","r","e","l","i","a","b","l","y",","," ","w","i","t","h"," ","a"," ","s","i","n","g","l","e"," ","c","o","m","m","a","n","d","."," ">>,
      <<"U","s","e"," ","t","h","i","s"," ","s","k","i","l","l"," ","w","h","e","n"," ","w","o","r","k","i","n","g"," ","w","i","t","h"," ","f","o","r","m","s"," ","f","o","r",":"," ">>,
      <<"W","h","e","n"," ","C","l","a","u","d","e"," ","n","e","e","d","s"," ","t","o"," ","h","a","n","d","l","e"," ","d","o","c","u","m","e","n","t","s",":"," ">>,
      <<"(","1",")"," ","F","i","l","l","i","n","g"," ","f","o","r","m","s",","," ","(","2",")"," ","R","e","a","d","i","n","g"," ","f","i","e","l","d","s",","," ">>,
      <<"(","3",")"," ","M","e","r","g","i","n","g"," ","f","i","l","e","s",","," ">>,
      <<".","p","d","f"," ","f","i","l","e","s",","," ">>,
      <<".","D","O","C","X"," ","f","i","l","e","s",","," ">>,
      <<"o","r"," ","a","n","y"," ","o","t","h","e","r"," ","p","d","f"," ","t","a","s","k",","," ">>,
      <<"s","u","c","h"," ","a","s"," ","i","n","v","o","i","c","e","s","."," ">>,
      <<"R","e","f","e","r"," ","t","o"," ","t","h","e"," ","b","o","d","y","."," ">>,
      <<"A","c","c","e","p","t","s"," ","<","i","n","p","u","t",">","."," ">>>>

\* The fragments picked, joined.
RECURSIVE Assemble(_, _)
Assemble(picked, n) ==
    IF n > Len(FRAGMENTS) THEN << >>
    ELSE (IF n \in picked THEN FRAGMENTS[n] ELSE << >>) \o Assemble(picked, n + 1)

\* Short descriptions, and long ones: PadLen characters before all the fragments, or
\* all but one or two of them.
ScoreDescriptions ==
    {Assemble(picked, 1) : picked \in SUBSET (1..Len(FRAGMENTS))}
    \cup {Repeat("z", PadLen) \o Assemble((1..Len(FRAGMENTS)) \ {m, n}, 1) :
              m, n \in 0..Len(FRAGMENTS)}

ScoreFileTypes == {<< >>, <<<<"p","d","f">>>>, <<<<"d","o","c","x">>, <<"p","d","f">>>>}

ScoreAnalyses ==
    {Analysis(PyStr(<<"p","d","f","-","f","i","l","l","e","r">>), description, file_types, << >>, << >>, << >>) :
        description \in ScoreDescriptions, file_types \in ScoreFileTypes}

InitScore == InitAnalyzed(ScoreAnalyses)

SpecScore == InitScore /\ [][NextAnalyzed]_vars

----------------------------------------------------------------------------
(* find_action_verbs over bodies drawn from bounded sets: main() up to the  *)
(* point where analyze_skill has returned, for a SKILL.md that is a body    *)
(* without a header.                                                        *)

MaxDistinctVerbs == 12
MaxTail == 2

\* Action verbs that hold none of the verb stems of estimate_scenarios.
PLAIN_VERBS ==
    <<<<"b","u","i","l","d">>, <<"m","a","k","e">>, <<"w","r","i","t","e">>, <<"p","r","o","d","u","c","e">>, <<"m","o","d","i","f","y">>, <<"u","p","d","a","t","e">>, <<"c","h","a","n","g","e">>, <<"f","i","x">>,
      <<"r","e","v","i","s","e">>, <<"p","r","o","c","e","s","s">>, <<"p","a","r","s","e">>, <<"e","x","a","m","i","n","e">>, <<"t","r","a","n","s","f","o","r","m">>, <<"c","o","m","b","i","n","e">>>>

\* What comes before or after the verbs: a verb again, a verb in upper case, a verb
\* twice around a hyphen, and verbs that are part of a longer word.
TAIL_TOKENS == <<<<"c","o","m","b","i","n","e">>, <<"F","i","x">>, <<"m","a","k","e","-","m","a","k","e">>, <<"p","a","r","s","e","_","i","t">>, <<"r","e","a","d","s">>>>

TokenLists(n) == UNION {[1..k -> Range(TAIL_TOKENS)] : k \in 0..n}

VerbBodies ==
    {join(<<" ">>, Take(PLAIN_VERBS, k) \o tail) :
        k \in 0..MaxDistinctVerbs, tail \in TokenLists(MaxTail)}
    \cup {join(<<" ">>, tail \o Take(PLAIN_VERBS, k)) :
        k \in 0..MaxDistinctVerbs, tail \in TokenLists(MaxTail)}

InitStart(documents) ==
    /\ pc = "start"
    /\ path_exists = TRUE
    /\ skill_md_exists = TRUE
    /\ folder_name = FOLDER_NAME
    /\ content \in documents
    /\ analysis = NoAnalysis
    /\ current = << >>
    /\ generated = << >>
    /\ suggestions = << >>
    /\ current_score = 0
    /\ generated_score = 0
    /\ best = << >>
    /\ called = << >>

InitVerbs == InitStart(VerbBodies)

NextAnalyze == MainAnalyze

SpecVerbs == InitVerbs /\ [][NextAnalyze]_vars

----------------------------------------------------------------------------
(* estimate_scenarios over headings and bodies drawn from bounded sets.     *)

MaxHeadings == 10
MaxStems == 4

\* Headings that give a scenario, and headings the loop drops: a meta-heading, one
\* that looks like code, one of 50 characters and more.
HEADING_POOL ==
    <<<<"C","r","e","a","t","i","n","g"," ","r","e","p","o","r","t","s">>, <<"O","v","e","r","v","i","e","w"," ","o","f"," ","e","d","i","t","i","n","g">>, <<"E","d","i","t","i","n","g"," ","d","r","a","f","t","s",":">>, <<"R","e","a","d","i","n","g"," ","(","f","a","s","t",")">>,
      <<"M","e","r","g","i","n","g"," ","a","r","c","h","i","v","e","s">>, <<"C","o","n","v","e","r","t","i","n","g"," ","e","v","e","r","y"," ","d","o","c","u","m","e","n","t"," ","o","f"," ","t","h","e"," ","a","r","c","h","i","v","e"," ","i","n"," ","o","n","e"," ","g","o">>,
      <<"S","p","l","i","t","t","i","n","g"," ","p","a","g","e","s">>, <<"V","a","l","i","d","a","t","i","n","g"," ","i","n","p","u","t">>, <<"F","o","r","m","a","t","t","i","n","g"," ","t","a","b","l","e","s">>, <<"E","x","t","r","a","c","t","i","n","g"," ","t","e","x","t">>,
      <<"P","r","o","c","e","s","s","i","n","g"," ","b","a","t","c","h","e","s">>, <<"B","u","i","l","d","i","n","g"," ","i","n","d","e","x","e","s">>>>

\* Words of the text under the headings, each holding one verb stem.
STEM_WORDS == <<<<"f","i","l","l">>, <<"g","e","n","e","r","a","t","e","d">>, <<"c","o","n","v","e","r","t">>, <<"A","n","a","l","y","z","e">>, <<"s","p","l","i","t","s">>, <<"m","e","r","g","e">>>>

HeadingLines(headings) == join(<< >>, [i \in 1..Len(headings) |-> <<"#","#"," ">> \o headings[i] \o <<"\n">>])

ScenarioBodies ==
    {HeadingLines(Take(HEADING_POOL, k)) \o <<"T","h","e","n"," ">> \o join(<<" ">>, Take(STEM_WORDS, s)) \o <<".","\n">> :
        k \in 0..MaxHeadings, s \in 0..MaxStems}

InitScenarios == InitStart(ScenarioBodies)

SpecScenarios == InitScenarios /\ [][NextAnalyze]_vars

----------------------------------------------------------------------------
(* The properties checked.                                                  *)

Analyzed == pc \in {"analyzed", "scored", "done"} /\ "error" \notin DOMAIN analysis
Scored == pc \in {"scored", "done"}

\* C1: the description generate_optimized_description returns, after its
\* post-processing, is at most 1024 characters long, for any skill name and headings.
C1_LengthAtMost1024 == Scored => Len(generated) <= MAX_DESCRIPTION_LENGTH

\* C2: the description generate_optimized_description returns holds neither '<' nor
\* '>', whatever the name, the headings and the scenarios hold.
C2_NoAngleBrackets == Scored => "<" \notin Range(generated) /\ ">" \notin Range(generated)

\* C3: score_description returns an integer between 0 and 100, for the current and for
\* the generated description, and the integer is decided by the description and
\* file_types alone: scoring against a record that holds nothing but file_types gives
\* the score main() got.
C3_ScoreInRange ==
    Scored =>
        /\ current_score \in 0..100
        /\ generated_score \in 0..100
        /\ current_score = score_description(current, [file_types |-> analysis.file_types])
        /\ generated_score
               = score_description(generated, [file_types |-> analysis.file_types])

\* C3 witness: main() has scored a current description that earns all seven components.
C3_FullMarksScored == Scored /\ current_score = 100 /\ Len(analysis.file_types) > 0

\* C4: an empty current description scores exactly 0 whatever file_types is, and the
\* quality_issues analyze_skill built hold the too-short, the missing-trigger and the
\* no-enumeration issue.
C4_EmptyDescriptionScoresZero ==
    (Scored /\ Len(analysis.current_description) = 0) =>
        /\ current_score = 0
        /\ {ISSUE_TOO_SHORT, ISSUE_NO_TRIGGER, ISSUE_NO_ENUMERATION}
               \subseteq Range(analysis.quality_issues)

\* C4 witness: an empty description was scored for a skill with no file types, where
\* the file-type and the anti-pattern component would have earned points.
C4_EmptyScoredWithoutFileTypes ==
    /\ Scored
    /\ Len(analysis.current_description) = 0
    /\ Len(analysis.file_types) = 0
    /\ current_score = 0
    /\ FileTypePoints(current, analysis.file_types) + AntiPatternPoints(current) = 30

\* The header of SKILL.md carries description: ""
HeaderHasEmptyDescription ==
    /\ HeaderClose(content) > 0
    /\ In(<<"d","e","s","c","r","i","p","t","i","o","n",":"," ","\"","\"">>, HeaderText(content))

\* C5, as stated: for a header with description "", quality_issues has exactly 5
\* entries when a file type was detected and exactly 4 when none was.
C5_FiveOrFourIssues ==
    (Analyzed /\ HeaderHasEmptyDescription) =>
        Len(analysis.quality_issues) = IF Len(analysis.file_types) > 0 THEN 5 ELSE 4

\* C5, amended: for a header with description "", quality_issues is exactly the
\* too-short, missing-trigger and no-enumeration issues, followed by the file-types
\* issue when a file type was detected: 4 entries then, and 3 when none was.
C5_FourOrThreeIssues ==
    (Analyzed /\ HeaderHasEmptyDescription) =>
        analysis.quality_issues =
            <<ISSUE_TOO_SHORT, ISSUE_NO_TRIGGER, ISSUE_NO_ENUMERATION>>
            \o (IF Len(analysis.file_types) > 0
                THEN <<IssueFileTypes(analysis.file_types)>> ELSE << >>)

\* C5 witness: a document with description "" in which file types were detected has
\* been analyzed, and has 4 issues.
C5_EmptyDescriptionWithFileTypes ==
    /\ Analyzed
    /\ HeaderHasEmptyDescription
    /\ Len(analysis.file_types) > 0
    /\ Len(analysis.quality_issues) = 4

\* C6: with an empty current description the generated description scores more than
\* 0, the score of the current one, and main() outputs the generated description.
C6_GeneratedPreferred ==
    (Scored /\ Len(current) = 0) =>
        /\ current_score = 0
        /\ generated_score > current_score
        /\ pc = "done" => best = generated

\* C6 witness: main() has output a generated description that lost its trigger phrase
\* to the shortening and still won over the empty current one.
C6_ShortenedStillPreferred ==
    /\ pc = "done"
    /\ Len(current) = 0
    /\ current_score = 0
    /\ TriggerPoints(generated) = 0
    /\ best = generated
    /\ Len(best) > 0

\* C7: when the current description earns all seven components of the scorer (100 for
\* the skill's file_types), suggest_improvements returns an empty list.
C7_FullScoreNoSuggestions == (Scored /\ current_score = 100) => Len(suggestions) = 0

\* Some lowercased heading holds one of the keywords.
HeadingsMention(keywords) ==
    \E h \in 1..Len(analysis.headings) :
        \E k \in 1..Len(keywords) : In(keywords[k], lower(analysis.headings[h]))

\* file_types holds a document-format extension.
HasDocumentFormat ==
    \E i \in 1..Len(analysis.file_types) :
        analysis.file_types[i] \in {<<"d","o","c","x">>, <<"p","d","f">>, <<"x","l","s","x">>, <<"p","p","t","x">>, <<"c","s","v">>}

\* C8: classify_skill_type returns one of the four types, first match wins:
\* file_processor for a document-format extension whatever the headings hold; else
\* knowledge_reference when a heading holds reference, documentation, api or schema,
\* also when one holds workflow, step, process or pipeline; else workflow_automation
\* when one holds one of those; else tool_integration.
C8_FirstMatchWins ==
    Analyzed =>
        LET skill_type == classify_skill_type(analysis)
            reference == HeadingsMention(<<<<"r","e","f","e","r","e","n","c","e">>, <<"d","o","c","u","m","e","n","t","a","t","i","o","n">>, <<"a","p","i">>, <<"s","c","h","e","m","a">>>>)
            workflow == HeadingsMention(<<<<"w","o","r","k","f","l","o","w">>, <<"s","t","e","p">>, <<"p","r","o","c","e","s","s">>, <<"p","i","p","e","l","i","n","e">>>>)
        IN /\ skill_type \in SkillTypes
           /\ HasDocumentFormat => skill_type = "file_processor"
           /\ (~HasDocumentFormat /\ reference) => skill_type = "knowledge_reference"
           /\ (~HasDocumentFormat /\ ~reference /\ workflow)
                  => skill_type = "workflow_automation"
           /\ (~HasDocumentFormat /\ ~reference /\ ~workflow)
                  => skill_type = "tool_integration"

\* C8 witness: a description was generated from the knowledge_reference template for a
\* skill without document formats whose headings hold both a reference and a workflow
\* keyword.
C8_ReferenceBeatsWorkflow ==
    /\ Scored
    /\ ~HasDocumentFormat
    /\ HeadingsMention(<<<<"r","e","f","e","r","e","n","c","e">>>>)
    /\ HeadingsMention(<<<<"w","o","r","k","f","l","o","w">>>>)
    /\ In(<<"P","r","o","v","i","d","e","s"," ","a","u","t","h","o","r","i","t","a","t","i","v","e"," ","g","u","i","d","a","n","c","e"," ","f","o","r">>, generated)

\* The text between the two delimiters does not decode as a mapping.
MalformedHeader ==
    /\ HeaderClose(content) > 0
    /\ yaml_safe_load(HeaderText(content)).type # "dict"

\* C9: a malformed header never aborts analysis: extract_frontmatter returns an empty
\* mapping, and analyze_skill returns a full record with the folder name as the name
\* and an empty current_description.
C9_MalformedHeaderNeverAborts ==
    (skill_md_exists /\ MalformedHeader /\ pc # "start") =>
        /\ extract_frontmatter(content).type = "dict"
        /\ DOMAIN extract_frontmatter(content).value = {}
        /\ pc # "raised"
        /\ analysis.name = PyStr(folder_name)
        /\ Len(analysis.current_description) = 0

GENERATOR_FUNCTIONS ==
    {"generate_optimized_description", "suggest_improvements", "score_description"}

\* C10: when the path or SKILL.md does not exist, analyze_skill (if called at all)
\* returns a record holding only an error, and main() exits before it calls
\* generate_optimized_description, suggest_improvements or score_description.
C10_NotFoundIsTerminal ==
    /\ ~path_exists => (pc \in {"start", "exit_1"} /\ Len(called) = 0)
    /\ (path_exists /\ ~skill_md_exists /\ pc # "start") =>
           /\ DOMAIN analysis = {"error"}
           /\ pc \in {"analyzed", "exit_1"}
    /\ (~path_exists \/ ~skill_md_exists) =>
           /\ Range(called) \cap GENERATOR_FUNCTIONS = {}
           /\ Len(generated) = 0 /\ Len(suggestions) = 0 /\ Len(best) = 0

\* C10 witness: main() has exited on the error analyze_skill returned for a folder
\* without SKILL.md.
C10_ExitedOnMissingSkillMd ==
    /\ pc = "exit_1"
    /\ path_exists
    /\ ~skill_md_exists
    /\ DOMAIN analysis = {"error"}
    /\ called = <<"analyze_skill">>

\* Where the verb stands in the lowercased body as a word of its own: a run of a-z
\* with no word character before or after it.
VerbOccurrences(verb, s) ==
    {i \in 1..Len(s) :
        /\ StartsAt(s, verb, i)
        /\ (i = 1 \/ ~IsWord(s[i - 1]))
        /\ (i + Len(verb) > Len(s) \/ ~IsWord(s[i + Len(verb)]))}

VerbCount(verb, s) == Cardinality(VerbOccurrences(verb, s))

FirstOccurrence(verb, s) ==
    CHOOSE i \in VerbOccurrences(verb, s) : \A k \in VerbOccurrences(verb, s) : i <= k

\* v occurs more often than w, or as often and first occurs earlier.
RanksBefore(v, w, s) ==
    \/ VerbCount(v, s) > VerbCount(w, s)
    \/ /\ VerbCount(v, s) = VerbCount(w, s)
       /\ FirstOccurrence(v, s) < FirstOccurrence(w, s)

VerbsPresent(s) == {verb \in ACTION_VERBS : VerbOccurrences(verb, s) # {}}

\* C11: find_action_verbs returns at most 10 verbs without duplicates, all of the
\* vocabulary and all occurring in the body, by descending count and, for equal
\* counts, in the order of first occurrence; a vocabulary verb of the body is left
\* out only when 10 verbs that rank before it are returned.
C11_VerbsRanked ==
    Analyzed =>
        LET s == lower(extract_body(content))
            verbs == analysis.action_verbs
        IN /\ Len(verbs) <= 10
           /\ \A i, j \in 1..Len(verbs) : i # j => verbs[i] # verbs[j]
           /\ \A i \in 1..Len(verbs) : verbs[i] \in VerbsPresent(s)
           /\ \A i, j \in 1..Len(verbs) : i < j => RanksBefore(verbs[i], verbs[j], s)
           /\ \A verb \in VerbsPresent(s) \ Range(verbs) :
                  /\ Len(verbs) = 10
                  /\ \A i \in 1..Len(verbs) : RanksBefore(verbs[i], verb, s)

\* C11 witness: a body with more than 10 vocabulary verbs was analyzed: the first verb
\* returned occurs twice and first occurs after the second one returned, the second
\* and third occur equally often, and a verb of the body is left out.
C11_TopTenOfMore ==
    /\ Analyzed
    /\ LET s == lower(extract_body(content))
           verbs == analysis.action_verbs
       IN /\ Cardinality(VerbsPresent(s)) > 10
          /\ Len(verbs) = 10
          /\ VerbCount(verbs[1], s) = 2
          /\ FirstOccurrence(verbs[1], s) > FirstOccurrence(verbs[2], s)
          /\ VerbCount(verbs[2], s) = VerbCount(verbs[3], s)

\* The scenarios the headings of the analyzed document give, in heading order.
HeadingDerived ==
    LET kept == HeadingScenarios(analysis.headings)
    IN [i \in 1..Len(kept) |-> CleanHeading(kept[i])]

\* The canned phrases of the verb stems the lowercased body holds.
CannedPresent == {verb_to_scenario(verb) : verb \in VerbsFound(extract_body(content))}

Min(a, b) == IF a < b THEN a ELSE b

\* C12: estimate_scenarios returns at most 5 entries, the heading-derived scenarios
\* first and in heading order, then canned phrases. With h heading-derived scenarios
\* and s verb stems in the body: for h >= 3 the result is the first min(5, h)
\* heading-derived scenarios and nothing else; for h < 3 it is all h of them followed
\* by distinct canned phrases of stems of the body, min(5, h + s) entries in all.
C12_HeadingsFirstThenCanned ==
    Analyzed =>
        LET result == analysis.estimated_scenarios
            h == Len(HeadingDerived)
            s == Cardinality(VerbsFound(extract_body(content)))
        IN /\ Len(result) <= 5
           /\ h >= 3 => result = SubSeq(HeadingDerived, 1, Min(5, h))
           /\ h < 3 =>
                  /\ Len(result) = Min(5, h + s)
                  /\ SubSeq(result, 1, h) = HeadingDerived
                  /\ \A i \in (h + 1)..Len(result) : result[i] \in CannedPresent
                  /\ \A i, j \in (h + 1)..Len(result) : i # j => result[i] # result[j]

\* C12 witness: a document with 2 heading-derived scenarios and more than 3 stems in
\* its body was analyzed, and 3 canned phrases follow the 2 scenarios.
C12_SupplementedToFive ==
    /\ Analyzed
    /\ Len(HeadingDerived) = 2
    /\ Cardinality(VerbsFound(extract_body(content))) > 3
    /\ Len(analysis.estimated_scenarios) = 5
    /\ analysis.estimated_scenarios[3] \in CannedPresent

\* C13: estimate_scenarios is deterministic: the sequence a run returned for a document
\* is the sequence every run returns for it, whatever order the set of found stems
\* is iterated in.
C13_SameOnEveryRun ==
    Analyzed =>
        \A picked \in PickedOrders(analysis.headings, extract_body(content)) :
            analysis.estimated_scenarios
                = estimate_scenarios(analysis.headings, extract_body(content), picked)

=============================================================================
